---- MODULE Spec2Model ----
(***************************************************************************)
(* The host binding of the streaming client's connection handle,          *)
(* src/src/fluvio.rs: the FluvioJS object (an optional, exclusively owned *)
(* native client), its marshalling into a host object, and its four async *)
(* capability factories, with the translation of the host's dynamic       *)
(* configuration object into a producer configuration.                    *)
(***************************************************************************)
EXTENDS Integers, Sequences, FiniteSets, TLC

(* ------------------------------------------------------------------ *)
(* Bounds of the model                                                 *)
(* ------------------------------------------------------------------ *)

\* host objects (FluvioJS instances) ever created
MaxHandles == 1
\* native clients (Fluvio values) ever created
MaxClients == 2
\* factory calls ever made
MaxCalls == 2
\* the same two, for the specification that enumerates every configuration
MaxCfgHandles == 1
MaxCfgCalls == 1

(* ------------------------------------------------------------------ *)
(* Values                                                              *)
(* ------------------------------------------------------------------ *)

\* Option<T>: None, Some(x)
None == <<>>
Some(x) == <<x>>

\* Result<T, E>
Ok(x) == <<"Ok", x>>
Err(e) == <<"Err", e>>
IsOk(r) == r[1] = "Ok"
IsErr(r) == r[1] = "Err"

\* crate::CLIENT_NOT_FOUND_ERROR_MSG (defined in the crate root)
CLIENT_NOT_FOUND_ERROR_MSG == "client not found"

\* FluvioErrorJS::new(msg): the boundary error, a message only. A message is
\* the sequence of the pieces format! joins.
FluvioErrorJS(msg) == [msg |-> msg]

\* the errors the native client's calls fail with
FluvioErrors == {"topic not found"}

Topics == {"orders", "events"}
Partitions == {0, 7}

VARIABLES
    inner,      \* inner[h]: Option<Fluvio> of host object h (FluvioJS.inner)
    origin,     \* origin[h]: how host object h was made
    visible,    \* the host objects the host holds a reference to
    conv,       \* the try_to_js in progress: None or Some([h, value])
    clients,    \* number of native clients created so far
    dropped,    \* the clients dropped
    attachLog,  \* the set_client calls, in order: [h, client]
    calls,      \* the factory calls, in order of invocation
    frame,      \* the latest invocation: its arguments and what it sent
    objs        \* the configuration objects the host's script passes

vars == <<inner, origin, visible, conv, clients, dropped, attachLog, calls, frame, objs>>

Handles == 1..Len(inner)

(* ------------------------------------------------------------------ *)
(* The handle: construction, attach, marshalling                       *)
(* ------------------------------------------------------------------ *)

\* the drop of an Option<Fluvio>: the client it holds, if any, is released
Drop(opt) == {opt[i] : i \in 1..Len(opt)}

\* a replace that keeps a client already held (get_or_insert) and lets the new one go
ReplaceKeepsFirst(opt, client) ==
    IF opt = None THEN [now |-> Some(client), old |-> None]
                  ELSE [now |-> opt, old |-> Some(client)]

\* Option::replace(client): the option's new value and the old value it returns
Replace(opt, client) == [now |-> Some(client), old |-> opt]

\* FluvioJS::set_client: the value replace returns is dropped at once
SetClient(h, client) ==
    /\ inner' = [inner EXCEPT ![h] = Replace(inner[h], client).now]
    /\ dropped' = dropped \cup Drop(Replace(inner[h], client).old)
    /\ attachLog' = Append(attachLog, [h |-> h, client |-> client])

\* From<Fluvio> for FluvioJS
FromFluvio(client) == Some(client)

\* the host's constructor call: FluvioJS::new
New ==
    /\ conv = None
    /\ inner' = Append(inner, None)
    /\ origin' = Append(origin, [by |-> "new", value |-> None])
    /\ visible' = visible \cup {Len(inner) + 1}
    /\ UNCHANGED <<conv, clients, dropped, attachLog, calls, frame, objs>>

\* try_to_js up to new_instance: a FluvioJS value (made by From<Fluvio>, or
\* holding nothing) gets a fresh host instance, built by the constructor
TryToJsNewInstance(fromClient, ok) ==
    /\ conv = None
    /\ fromClient => clients < MaxClients
    /\ LET value == IF fromClient THEN FromFluvio(clients + 1) ELSE None
       IN /\ clients' = IF fromClient THEN clients + 1 ELSE clients
          /\ IF ok
             THEN /\ inner' = Append(inner, None)
                  /\ origin' = Append(origin, [by |-> "try_to_js", value |-> value])
                  /\ conv' = Some([h |-> Len(inner) + 1, value |-> value])
                  /\ UNCHANGED dropped
             ELSE /\ dropped' = dropped \cup Drop(value)
                  /\ UNCHANGED <<inner, origin, conv>>
    /\ UNCHANGED <<visible, attachLog, calls, frame, objs>>

\* try_to_js returning the new instance without set_client
TryToJsForgetsClient(ok) ==
    /\ conv # None
    /\ ok
    /\ visible' = visible \cup {conv[1].h}
    /\ dropped' = dropped \cup Drop(conv[1].value)
    /\ conv' = None
    /\ UNCHANGED <<inner, attachLog, origin, clients, calls, frame, objs>>

\* try_to_js from `if let Some(inner) = self.inner` to its return
TryToJsSetClient(ok) ==
    /\ conv # None
    /\ LET h == conv[1].h
           value == conv[1].value
       IN IF value = None
          THEN /\ ok
               /\ visible' = visible \cup {h}
               /\ UNCHANGED <<inner, dropped, attachLog>>
          ELSE IF ok
          THEN /\ SetClient(h, value[1])
               /\ visible' = visible \cup {h}
          ELSE /\ dropped' = dropped \cup Drop(value)
               /\ UNCHANGED <<inner, visible, attachLog>>
    /\ conv' = None
    /\ UNCHANGED <<origin, clients, calls, frame, objs>>

\* set_client called by native code on a handle that already exists. It
\* takes &mut self, which a factory call of the handle holds across its
\* .await, so it runs only while no call of the handle is awaiting.
Attach(h) ==
    /\ clients < MaxClients
    /\ \A call \in 1..Len(calls) : calls[call].h = h => calls[call].out # None
    /\ clients' = clients + 1
    /\ SetClient(h, clients + 1)
    /\ UNCHANGED <<origin, visible, conv, calls, frame, objs>>

(* ------------------------------------------------------------------ *)
(* The host's configuration object and its translation                 *)
(* ------------------------------------------------------------------ *)

\* An f64: a finite number given in halves (3 is 1.5, -3 is -1.5), NaN,
\* +infinity, or a finite number above u64::MAX (1e30).
Fin(halves) == <<"fin", halves>>
NaN == <<"nan">>
PosInf == <<"inf">>
Big == <<"big">>

\* A property of the host object: not there, there with a value, or there
\* and failing to be read (a getter or proxy trap that throws).
JsAbsent == <<"absent">>
JsThrows == <<"throws">>
JsNumber(x) == <<"number", x>>
JsString(str) == <<"string", str>>
JsBoolean == <<"boolean">>

\* u64: a value, or u64::MAX itself (above every value the model counts to)
U64(n) == <<"u64", n>>
U64Max == <<"u64::MAX">>

\* the f64 rounded to the nearest whole number before the cast
F64AsU64Rounding(x) ==
    CASE x[1] = "nan" -> U64(0)
      [] x[1] = "inf" -> U64Max
      [] x[1] = "big" -> U64Max
      [] x[1] = "fin" -> U64(IF x[2] < 0 THEN 0 ELSE (x[2] + 1) \div 2)

\* `x as u64` of an f64: towards zero, saturating, NaN to 0
F64AsU64(x) ==
    CASE x[1] = "nan" -> U64(0)
      [] x[1] = "inf" -> U64Max
      [] x[1] = "big" -> U64Max
      [] x[1] = "fin" -> U64(IF x[2] < 0 THEN 0 ELSE x[2] \div 2)

\* std::time::Duration::from_millis
DurationFromMillis(u) == <<"ms", u>>

\* JsObject::get_property(name): Err, Ok(None) or Ok(Some(property))
GetProperty(obj, name) ==
    IF obj[name] = JsThrows THEN Err("napi error")
    ELSE IF obj[name] = JsAbsent THEN Ok(None)
    ELSE Ok(Some(obj[name]))

\* prop.as_value::<u32>(): a number converts (the model's numbers for these
\* properties are whole and within u32), anything else does not
AsU32(prop) ==
    IF prop[1] = "number" /\ prop[2][1] = "fin" /\ prop[2][2] >= 0
    THEN Ok(prop[2][2] \div 2) ELSE Err("not a number")

\* prop.as_value::<f64>(): every number converts
AsF64(prop) == IF prop[1] = "number" THEN Ok(prop[2]) ELSE Err("not a number")

\* prop.as_value::<String>()
AsString(prop) == IF prop[1] = "string" THEN Ok(prop[2]) ELSE Err("not a string")

\* TopicProducerConfigBuilder::default(): no field set. A field not set is
\* the library's default when the configuration is built.
BuilderDefault ==
    [batch_size |-> None, timeout |-> None, linger |-> None,
     max_request_size |-> None, compression |-> None]

\* the message of a failed property read
ErrorGetting(name, e) == <<"Error getting ", name, " property: ", e>>

\* the message of an unrecognized compression name
InvalidCompression(name) == <<"Invalid compression type: ", name>>

\* Each step below takes the Result so far: Ok(builder), or the Err that
\* `?` or `return Err` already returned.

\* batchSize made a hard error when it does not convert
BatchSizeStrict(acc, obj) ==
    IF IsErr(acc) THEN acc
    ELSE LET got == GetProperty(obj, "batchSize")
         IN IF IsErr(got) THEN Err(FluvioErrorJS(ErrorGetting("batchSize", got[2])))
            ELSE IF got[2] = None THEN acc
            ELSE IF IsOk(AsU32(got[2][1]))
                 THEN Ok([acc[2] EXCEPT !.batch_size = Some(AsU32(got[2][1])[2])])
                 ELSE Err(FluvioErrorJS(<<"Invalid batchSize">>))

BatchSize(acc, obj) ==
    IF IsErr(acc) THEN acc
    ELSE LET got == GetProperty(obj, "batchSize")
         IN IF IsErr(got) THEN Err(FluvioErrorJS(ErrorGetting("batchSize", got[2])))
            ELSE IF got[2] = None THEN acc
            ELSE IF IsOk(AsU32(got[2][1]))
                 THEN Ok([acc[2] EXCEPT !.batch_size = Some(AsU32(got[2][1])[2])])
                 ELSE acc

TimeoutMs(acc, obj) ==
    IF IsErr(acc) THEN acc
    ELSE LET got == GetProperty(obj, "timeoutMs")
         IN IF IsErr(got) THEN Err(FluvioErrorJS(ErrorGetting("timeoutMs", got[2])))
            ELSE IF got[2] = None THEN acc
            ELSE IF IsOk(AsF64(got[2][1]))
                 THEN Ok([acc[2] EXCEPT !.timeout =
                            Some(DurationFromMillis(F64AsU64(AsF64(got[2][1])[2])))])
                 ELSE acc

LingerMs(acc, obj) ==
    IF IsErr(acc) THEN acc
    ELSE LET got == GetProperty(obj, "lingerMs")
         IN IF IsErr(got) THEN Err(FluvioErrorJS(ErrorGetting("lingerMs", got[2])))
            ELSE IF got[2] = None THEN acc
            ELSE IF IsOk(AsF64(got[2][1]))
                 THEN Ok([acc[2] EXCEPT !.linger =
                            Some(DurationFromMillis(F64AsU64(AsF64(got[2][1])[2])))])
                 ELSE acc

MaxRequestSize(acc, obj) ==
    IF IsErr(acc) THEN acc
    ELSE LET got == GetProperty(obj, "maxRequestSize")
         IN IF IsErr(got) THEN Err(FluvioErrorJS(ErrorGetting("maxRequestSize", got[2])))
            ELSE IF got[2] = None THEN acc
            ELSE IF IsOk(AsU32(got[2][1]))
                 THEN Ok([acc[2] EXCEPT !.max_request_size = Some(AsU32(got[2][1])[2])])
                 ELSE acc

\* the compression names matched without regard to case, an unknown one left out
MatchCompressionLenient(name) ==
    CASE name \in {"none", "NONE"} -> Ok(None)
      [] name \in {"gzip", "GZIP"} -> Ok(Some("Gzip"))
      [] name \in {"snappy", "SNAPPY"} -> Ok(Some("Snappy"))
      [] name \in {"lz4", "LZ4"} -> Ok(Some("Lz4"))
      [] OTHER -> Ok(None)

\* "none" set on the builder as a compression of its own
MatchCompressionNoneSet(name) ==
    CASE name = "none" -> Ok(Some("None"))
      [] name = "gzip" -> Ok(Some("Gzip"))
      [] name = "snappy" -> Ok(Some("Snappy"))
      [] name = "lz4" -> Ok(Some("Lz4"))
      [] OTHER -> Err(FluvioErrorJS(InvalidCompression(name)))

\* match compression_type.as_str() { ... }: Ok(Option<Compression>), or the
\* error the `_` arm returns
MatchCompression(name) ==
    CASE name = "none" -> Ok(None)
      [] name = "gzip" -> Ok(Some("Gzip"))
      [] name = "snappy" -> Ok(Some("Snappy"))
      [] name = "lz4" -> Ok(Some("Lz4"))
      [] OTHER -> Err(FluvioErrorJS(InvalidCompression(name)))

Compression(acc, obj) ==
    IF IsErr(acc) THEN acc
    ELSE LET got == GetProperty(obj, "compression")
         IN IF IsErr(got) THEN Err(FluvioErrorJS(ErrorGetting("compression", got[2])))
            ELSE IF got[2] = None THEN acc
            ELSE IF IsOk(AsString(got[2][1]))
                 THEN LET compression == MatchCompression(AsString(got[2][1])[2])
                      IN IF IsErr(compression) THEN compression
                         ELSE IF compression[2] # None
                              THEN Ok([acc[2] EXCEPT !.compression = compression[2]])
                              ELSE acc
                 ELSE acc

\* the five properties, read in the order of the source
Translate(obj) ==
    Compression(MaxRequestSize(LingerMs(TimeoutMs(BatchSize(Ok(BuilderDefault), obj),
                                                  obj), obj), obj), obj)

\* TopicProducerConfigBuilder::build: the configuration, each field the one
\* set or else the library's default, or the builder's error
Build(builder, accepted) ==
    IF accepted THEN Ok(builder) ELSE Err("builder error")

(* ------------------------------------------------------------------ *)
(* The capability factories                                            *)
(* ------------------------------------------------------------------ *)

\* FluvioAdminJS::from, PartitionConsumerJS::from, TopicProducerJS::from:
\* the wrapper owns the capability object it is given
Wrapper(class, capability) == [class |-> class, wraps |-> capability]

\* From<FluvioError> for FluvioErrorJS, applied by `?`
FromFluvioError(e) == FluvioErrorJS(<<e>>)

\* the wrapper class of each factory
ClassOf(op) ==
    CASE op = "admin" -> "FluvioAdminJS"
      [] op = "partition_consumer" -> "PartitionConsumerJS"
      [] OTHER -> "TopicProducerJS"

\* the capability object the native call of invocation `call` returns
Capability(call) == [of |-> calls[call].sent[1], kind |-> calls[call].op, serial |-> call]

\* what the native client may answer: admin() returns the admin client
\* itself, the other three a Result
NativeAnswers(op) ==
    IF op = "admin" THEN {"Ok"} ELSE {"Ok"} \cup FluvioErrors

\* a wrapper is returned whatever the native call answered
AfterAwaitAlwaysOk(call, answer) ==
    [ret |-> Some(IF answer = "Ok" THEN Ok(Capability(call)) ELSE Err(answer)),
     out |-> Some(Ok(Wrapper(ClassOf(calls[call].op), Capability(call))))]

\* the rest of a factory after its .await: Ok(Wrapper::from(answer?))
AfterAwait(call, answer) ==
    [ret |-> Some(IF answer = "Ok" THEN Ok(Capability(call)) ELSE Err(answer)),
     out |-> Some(IF answer = "Ok"
                  THEN Ok(Wrapper(ClassOf(calls[call].op), Capability(call)))
                  ELSE Err(FromFluvioError(answer)))]

\* the else branch of every factory
ClientNotFound == Err(FluvioErrorJS(<<CLIENT_NOT_FOUND_ERROR_MSG>>))

\* an invocation as the model records it: the handle, the client the native
\* call was sent to (None: no native call), the native answer, the outcome
Invocation(h, op, sent, out) ==
    [h |-> h, op |-> op, sent |-> sent, ret |-> None, out |-> out]

\* the latest invocation's arguments, the builder it made, the native request
Frame(h, op, topic, partition, obj, made, native) ==
    Some([call |-> Len(calls) + 1, h |-> h, op |-> op, topic |-> topic,
          partition |-> partition, config_obj |-> obj, made |-> made,
          native |-> native])

\* the request the native client receives
Request(client, op, topic, partition, config) ==
    Some([client |-> client, op |-> op, topic |-> topic, partition |-> partition,
          config |-> config])

\* the host may call a method of an object it holds, when its one thread is
\* not inside try_to_js
HostCalls(h) == h \in visible /\ conv = None

\* admin taking the client out of the handle (Option::take) for the call
AdminTakes(h) ==
    /\ HostCalls(h)
    /\ IF inner[h] # None
       THEN /\ calls' = Append(calls, Invocation(h, "admin", inner[h], None))
            /\ frame' = Frame(h, "admin", None, None, None, None,
                              Request(inner[h][1], "admin", None, None, None))
            /\ inner' = [inner EXCEPT ![h] = None]
       ELSE /\ calls' = Append(calls, Invocation(h, "admin", None, Some(ClientNotFound)))
            /\ frame' = Frame(h, "admin", None, None, None, None, None)
            /\ UNCHANGED inner
    /\ UNCHANGED <<origin, visible, conv, clients, dropped, attachLog, objs>>

\* FluvioJS::admin, to its .await
Admin(h) ==
    /\ HostCalls(h)
    /\ IF inner[h] # None
       THEN /\ calls' = Append(calls, Invocation(h, "admin", inner[h], None))
            /\ frame' = Frame(h, "admin", None, None, None, None,
                              Request(inner[h][1], "admin", None, None, None))
       ELSE /\ calls' = Append(calls, Invocation(h, "admin", None, Some(ClientNotFound)))
            /\ frame' = Frame(h, "admin", None, None, None, None, None)
    /\ UNCHANGED <<inner, origin, visible, conv, clients, dropped, attachLog, objs>>

\* FluvioJS::partition_consumer, to its .await
PartitionConsumer(h, topic, partition) ==
    /\ HostCalls(h)
    /\ IF inner[h] # None
       THEN /\ calls' = Append(calls, Invocation(h, "partition_consumer", inner[h], None))
            /\ frame' = Frame(h, "partition_consumer", Some(topic), Some(partition), None,
                              None, Request(inner[h][1], "partition_consumer",
                                            Some(topic), Some(partition), None))
       ELSE /\ calls' = Append(calls, Invocation(h, "partition_consumer", None,
                                                 Some(ClientNotFound)))
            /\ frame' = Frame(h, "partition_consumer", Some(topic), Some(partition), None,
                              None, None)
    /\ UNCHANGED <<inner, origin, visible, conv, clients, dropped, attachLog, objs>>

\* FluvioJS::topic_producer, to its .await
TopicProducer(h, topic) ==
    /\ HostCalls(h)
    /\ IF inner[h] # None
       THEN /\ calls' = Append(calls, Invocation(h, "topic_producer", inner[h], None))
            /\ frame' = Frame(h, "topic_producer", Some(topic), None, None, None,
                              Request(inner[h][1], "topic_producer", Some(topic), None,
                                      None))
       ELSE /\ calls' = Append(calls, Invocation(h, "topic_producer", None,
                                                 Some(ClientNotFound)))
            /\ frame' = Frame(h, "topic_producer", Some(topic), None, None, None, None)
    /\ UNCHANGED <<inner, origin, visible, conv, clients, dropped, attachLog, objs>>

\* topic_producer_with_config translating the object before it looks for the client
TopicProducerWithConfigEager(h, topic, obj, accepted) ==
    /\ HostCalls(h)
    /\ LET made == Translate(obj)
           op == "topic_producer_with_config"
       IN IF IsErr(made)
          THEN /\ calls' = Append(calls, Invocation(h, op, None, Some(made)))
               /\ frame' = Frame(h, op, Some(topic), None, Some(obj), Some(made), None)
          ELSE IF inner[h] = None
          THEN /\ calls' = Append(calls, Invocation(h, op, None, Some(ClientNotFound)))
               /\ frame' = Frame(h, op, Some(topic), None, Some(obj), Some(made), None)
          ELSE IF IsErr(Build(made[2], accepted))
          THEN /\ calls' = Append(calls, Invocation(h, op, None,
                                     Some(<<"Panic", "Failed to build config">>)))
               /\ frame' = Frame(h, op, Some(topic), None, Some(obj), Some(made), None)
          ELSE /\ calls' = Append(calls, Invocation(h, op, inner[h], None))
               /\ frame' = Frame(h, op, Some(topic), None, Some(obj), Some(made),
                                 Request(inner[h][1], op, Some(topic), None,
                                         Some(Build(made[2], accepted)[2])))
    /\ UNCHANGED <<inner, origin, visible, conv, clients, dropped, attachLog, objs>>

\* FluvioJS::topic_producer_with_config, to its .await: the client is looked
\* for, the object translated, the configuration built (build's Err panics
\* in expect), the native call sent
TopicProducerWithConfig(h, topic, obj, accepted) ==
    /\ HostCalls(h)
    /\ LET made == Translate(obj)
           op == "topic_producer_with_config"
       IN IF inner[h] = None
          THEN /\ calls' = Append(calls, Invocation(h, op, None, Some(ClientNotFound)))
               /\ frame' = Frame(h, op, Some(topic), None, Some(obj), None, None)
          ELSE IF IsErr(made)
          THEN /\ calls' = Append(calls, Invocation(h, op, None, Some(made)))
               /\ frame' = Frame(h, op, Some(topic), None, Some(obj), Some(made), None)
          ELSE IF IsErr(Build(made[2], accepted))
          THEN /\ calls' = Append(calls, Invocation(h, op, None,
                                     Some(<<"Panic", "Failed to build config">>)))
               /\ frame' = Frame(h, op, Some(topic), None, Some(obj), Some(made), None)
          ELSE /\ calls' = Append(calls, Invocation(h, op, inner[h], None))
               /\ frame' = Frame(h, op, Some(topic), None, Some(obj), Some(made),
                                 Request(inner[h][1], op, Some(topic), None,
                                         Some(Build(made[2], accepted)[2])))
    /\ UNCHANGED <<inner, origin, visible, conv, clients, dropped, attachLog, objs>>

\* the native call of invocation `call` answers and the factory runs to its end
Resume(call, answer) ==
    /\ calls[call].sent # None
    /\ calls[call].out = None
    /\ answer \in NativeAnswers(calls[call].op)
    /\ calls' = [calls EXCEPT ![call].ret = AfterAwait(call, answer).ret,
                              ![call].out = AfterAwait(call, answer).out]
    /\ UNCHANGED <<inner, origin, visible, conv, clients, dropped, attachLog, frame, objs>>

(* ------------------------------------------------------------------ *)
(* Configuration objects the host passes                               *)
(* ------------------------------------------------------------------ *)

ConfigObj(b, t, l, m, c) ==
    [batchSize |-> b, timeoutMs |-> t, lingerMs |-> l, maxRequestSize |-> m,
     compression |-> c]

\* every shape of every property: absent, failing to be read, of the wrong
\* type, and values of the right type
AllConfigs ==
    [batchSize : {JsAbsent, JsThrows, JsString("not-a-number"), JsNumber(Fin(200))},
     timeoutMs : {JsAbsent, JsThrows, JsString("soon"), JsNumber(Fin(3)),
                  JsNumber(Fin(-3)), JsNumber(NaN), JsNumber(Big)},
     lingerMs : {JsAbsent, JsThrows, JsBoolean, JsNumber(Fin(10)), JsNumber(PosInf)},
     maxRequestSize : {JsAbsent, JsThrows, JsBoolean, JsNumber(Fin(4096))},
     compression : {JsAbsent, JsThrows, JsNumber(Fin(2)), JsString("none"),
                    JsString("gzip"), JsString("snappy"), JsString("lz4"),
                    JsString("bogus"), JsString("GZIP")}]

\* the configurations of the lifecycle specifications
CoreConfigs ==
    {ConfigObj(JsAbsent, JsAbsent, JsAbsent, JsAbsent, JsAbsent),
     ConfigObj(JsNumber(Fin(200)), JsAbsent, JsAbsent, JsAbsent, JsString("gzip")),
     ConfigObj(JsAbsent, JsAbsent, JsAbsent, JsAbsent, JsString("bogus")),
     ConfigObj(JsString("not-a-number"), JsAbsent, JsAbsent, JsAbsent, JsAbsent),
     ConfigObj(JsAbsent, JsThrows, JsAbsent, JsAbsent, JsString("none"))}

(* ------------------------------------------------------------------ *)
(* Specifications                                                      *)
(* ------------------------------------------------------------------ *)

Start ==
    /\ inner = <<>>
    /\ origin = <<>>
    /\ visible = {}
    /\ conv = None
    /\ clients = 0
    /\ dropped = {}
    /\ attachLog = <<>>
    /\ calls = <<>>
    /\ frame = None

\* nothing constructed yet; the host's script passes the core configurations
Init == Start /\ objs = CoreConfigs

\* the host's calls and the marshalling of values native code returns
Next ==
    \/ Len(inner) < MaxHandles /\ New
    \/ Len(inner) < MaxHandles /\ \E fromClient, ok \in BOOLEAN :
         TryToJsNewInstance(fromClient, ok)
    \/ \E ok \in BOOLEAN : TryToJsSetClient(ok)
    \/ Len(calls) < MaxCalls /\ \E h \in Handles : Admin(h)
    \/ Len(calls) < MaxCalls /\ \E h \in Handles, topic \in Topics, partition \in Partitions :
         PartitionConsumer(h, topic, partition)
    \/ Len(calls) < MaxCalls /\ \E h \in Handles, topic \in Topics : TopicProducer(h, topic)
    \/ Len(calls) < MaxCalls /\ \E h \in Handles, topic \in Topics, obj \in objs,
                                   accepted \in BOOLEAN :
         TopicProducerWithConfig(h, topic, obj, accepted)
    \/ \E call \in 1..Len(calls), answer \in {"Ok"} \cup FluvioErrors : Resume(call, answer)

Spec == Init /\ [][Next]_vars

\* the same calls on one topic, with set_client also called by native code on
\* existing handles
NextAttach ==
    \/ Len(inner) < MaxHandles /\ New
    \/ Len(inner) < MaxHandles /\ \E fromClient, ok \in BOOLEAN :
         TryToJsNewInstance(fromClient, ok)
    \/ \E ok \in BOOLEAN : TryToJsSetClient(ok)
    \/ \E h \in Handles : Attach(h)
    \/ Len(calls) < MaxCalls /\ \E h \in Handles : Admin(h)
    \/ Len(calls) < MaxCalls /\ \E h \in Handles : PartitionConsumer(h, "orders", 0)
    \/ Len(calls) < MaxCalls /\ \E h \in Handles : TopicProducer(h, "orders")
    \/ Len(calls) < MaxCalls /\ \E h \in Handles, obj \in objs, accepted \in BOOLEAN :
         TopicProducerWithConfig(h, "orders", obj, accepted)
    \/ \E call \in 1..Len(calls), answer \in {"Ok"} \cup FluvioErrors : Resume(call, answer)

\* the host's script passes the empty configuration object
InitAttach ==
    Start /\ objs = {ConfigObj(JsAbsent, JsAbsent, JsAbsent, JsAbsent, JsAbsent)}

SpecAttach == InitAttach /\ [][NextAttach]_vars

\* producer creation by a script that passes one configuration object, the
\* object being any of AllConfigs
InitConfig == Start /\ \E obj \in AllConfigs : objs = {obj}

NextConfig ==
    \/ Len(inner) < MaxCfgHandles /\ New
    \/ Len(inner) < MaxCfgHandles /\ \E fromClient, ok \in BOOLEAN :
         TryToJsNewInstance(fromClient, ok)
    \/ \E ok \in BOOLEAN : TryToJsSetClient(ok)
    \/ Len(calls) < MaxCfgCalls /\ \E h \in Handles, obj \in objs, accepted \in BOOLEAN :
         TopicProducerWithConfig(h, "orders", obj, accepted)
    \/ \E call \in 1..Len(calls), answer \in {"Ok"} \cup FluvioErrors : Resume(call, answer)

SpecConfig == InitConfig /\ [][NextConfig]_vars

(* ------------------------------------------------------------------ *)
(* Properties                                                          *)
(* ------------------------------------------------------------------ *)

WithConfig == "topic_producer_with_config"
FourFields == {"batchSize", "timeoutMs", "lingerMs", "maxRequestSize"}
ReadOrder == <<"batchSize", "timeoutMs", "lingerMs", "maxRequestSize", "compression">>
KnownCompression == {"none", "gzip", "snappy", "lz4"}

\* the builder field a property of the host object sets
FieldOf(name) ==
    CASE name = "batchSize" -> "batch_size"
      [] name = "timeoutMs" -> "timeout"
      [] name = "lingerMs" -> "linger"
      [] name = "maxRequestSize" -> "max_request_size"
      [] OTHER -> "compression"

IsThere(obj, name) == obj[name] # JsAbsent /\ obj[name] # JsThrows
WrongShape(obj, name) == IsThere(obj, name) /\ obj[name][1] # "number"
Throwing(obj) == {k \in 1..5 : obj[ReadOrder[k]] = JsThrows}
UnknownCompression(obj) ==
    obj.compression[1] = "string" /\ obj.compression[2] \notin KnownCompression

\* the object with each wrong-shaped one of the four properties absent
WithoutWrongShapes(obj) ==
    [name \in DOMAIN obj |->
       IF name \in FourFields /\ WrongShape(obj, name) THEN JsAbsent ELSE obj[name]]

Attached(h) == inner[h] # None
Panicked(call) == calls[call].out # None /\ calls[call].out[1][1] = "Panic"
Rejected(call) == calls[call].out # None /\ calls[call].out[1][1] = "Err"
Resolved(call) == calls[call].out # None /\ calls[call].out[1][1] = "Ok"
Message(call) == calls[call].out[1][2].msg
\* the latest invocation is a producer-with-config call on an attached handle
ConfigCall == frame # None /\ frame[1].op = WithConfig /\ Attached(frame[1].h)

\* the configuration object of the latest invocation
PassedObj == frame[1].config_obj[1]

\* C1: on an unattached handle every factory call, whatever its arguments,
\* fails with exactly "client not found" and sends no native call; the
\* absent client comes before any validation of the configuration.
C1_Unattached ==
    /\ \A call \in 1..Len(calls) :
         ~Attached(calls[call].h) =>
           /\ calls[call].out = Some(Err([msg |-> <<"client not found">>]))
           /\ calls[call].sent = None
           /\ calls[call].ret = None
    /\ (frame # None /\ ~Attached(frame[1].h)) => frame[1].native = None

C1_Witness ==
    /\ Len(calls) = 2
    /\ ~Attached(calls[1].h)
    /\ calls[1].op = "partition_consumer"
    /\ calls[1].out = Some(Err([msg |-> <<"client not found">>]))
    /\ calls[2].h = calls[1].h
    /\ calls[2].op = WithConfig
    /\ UnknownCompression(PassedObj)
    /\ calls[2].out = Some(Err([msg |-> <<"client not found">>]))

\* C2, as claimed: on an attached handle a compression string other than
\* none, gzip, snappy, lz4 fails with a message holding the value, before
\* any native call, whatever the other properties are.
C2_Original ==
    (ConfigCall /\ UnknownCompression(PassedObj)) =>
      /\ Rejected(frame[1].call)
      /\ \E k \in 1..Len(Message(frame[1].call)) :
           Message(frame[1].call)[k] = PassedObj.compression[2]
      /\ calls[frame[1].call].sent = None
      /\ frame[1].native = None

\* C2, amended: the same when none of the five properties fails to be read;
\* when one does, the call fails with "Error getting <the first such
\* property> property", also before any native call.
C2_UnknownCompression ==
    (ConfigCall /\ UnknownCompression(PassedObj)) =>
      /\ Rejected(frame[1].call)
      /\ calls[frame[1].call].sent = None
      /\ frame[1].native = None
      /\ LET obj == PassedObj
             msg == Message(frame[1].call)
         IN IF Throwing(obj) = {}
            THEN msg = <<"Invalid compression type: ", obj.compression[2]>>
            ELSE /\ Len(msg) = 4
                 /\ msg[1] = "Error getting "
                 /\ \E k \in Throwing(obj) :
                      /\ msg[2] = ReadOrder[k]
                      /\ \A j \in Throwing(obj) : k <= j

C2_Witness ==
    /\ ConfigCall
    /\ PassedObj.compression = JsString("GZIP")
    /\ WrongShape(PassedObj, "batchSize")
    /\ PassedObj.timeoutMs = JsNumber(Fin(3))
    /\ Message(frame[1].call) = <<"Invalid compression type: ", "GZIP">>
    /\ frame[1].native = None

\* C3: on an attached handle a batchSize, timeoutMs, lingerMs or
\* maxRequestSize that is there with a value of the wrong shape is no error:
\* the call is rejected before the native call only for a property that
\* cannot be read or for an unknown compression name, the field stays
\* unset, and unless one of those two happens or the builder's build
\* rejects, the native call is sent with the field at its default; the
\* object translates as it does with its wrong-shaped fields taken away.
C3_WrongShapeTolerated ==
    ConfigCall =>
      \A name \in FourFields :
        WrongShape(PassedObj, name) =>
          LET obj == PassedObj
              call == frame[1].call
          IN /\ (Rejected(call) /\ calls[call].sent = None) =>
                  \/ /\ Throwing(obj) # {}
                     /\ Message(call)[1] = "Error getting "
                     /\ Message(call)[2] # name
                  \/ /\ UnknownCompression(obj)
                     /\ Message(call)[1] = "Invalid compression type: "
             /\ (frame[1].made # None /\ IsOk(frame[1].made[1])) =>
                  frame[1].made[1][2][FieldOf(name)] = None
             /\ frame[1].made = Some(Translate(WithoutWrongShapes(obj)))
             /\ (Throwing(obj) = {} /\ ~UnknownCompression(obj) /\ ~Panicked(call)) =>
                  /\ calls[call].sent = inner[frame[1].h]
                  /\ frame[1].native # None
                  /\ frame[1].native[1].config[1][FieldOf(name)] = None

C3_Witness ==
    /\ ConfigCall
    /\ WrongShape(PassedObj, "batchSize")
    /\ WrongShape(PassedObj, "lingerMs")
    /\ PassedObj.compression = JsString("lz4")
    /\ frame[1].native # None
    /\ frame[1].native[1].config[1].batch_size = None
    /\ frame[1].native[1].config[1].linger = None
    /\ frame[1].native[1].config[1].compression = Some("Lz4")
    /\ Resolved(frame[1].call)

\* a whole number of a u32 property, as the field it sets
GivenSize(prop) == IF prop[1] = "number" THEN Some(prop[2][2] \div 2) ELSE None

\* the compression a property names
GivenCompression(prop) ==
    IF prop = JsString("gzip") THEN Some("Gzip")
    ELSE IF prop = JsString("snappy") THEN Some("Snappy")
    ELSE IF prop = JsString("lz4") THEN Some("Lz4")
    ELSE None

\* a number of milliseconds as the duration of exactly that length; a
\* number that is no whole, non-negative count of milliseconds has none
GivenExactly(prop) ==
    IF prop[1] # "number" THEN None
    ELSE IF prop[2][1] = "fin" /\ prop[2][2] >= 0 /\ prop[2][2] % 2 = 0
         THEN Some(<<"ms", <<"u64", prop[2][2] \div 2>>>>)
         ELSE Some(<<"no such duration">>)

\* a number of milliseconds cut to a whole count within u64: towards zero,
\* below zero and NaN to 0, above the range to u64::MAX
GivenWhole(prop) ==
    IF prop[1] # "number" THEN None
    ELSE IF prop[2][1] = "fin"
         THEN Some(<<"ms", <<"u64", IF prop[2][2] <= 0 THEN 0
                                     ELSE (prop[2][2] - (prop[2][2] % 2)) \div 2>>>>)
         ELSE IF prop[2][1] = "nan" THEN Some(<<"ms", <<"u64", 0>>>>)
         ELSE Some(<<"ms", <<"u64::MAX">>>>)

\* C4, as claimed: the configuration the native call receives has each
\* field that is there and well-typed set to the given value, every other
\* field at its default.
C4_Original ==
    (ConfigCall /\ frame[1].native # None) =>
      frame[1].native[1].config[1] =
        [batch_size |-> GivenSize(PassedObj.batchSize),
         timeout |-> GivenExactly(PassedObj.timeoutMs),
         linger |-> GivenExactly(PassedObj.lingerMs),
         max_request_size |-> GivenSize(PassedObj.maxRequestSize),
         compression |-> GivenCompression(PassedObj.compression)]

\* C4, amended: the same, timeoutMs and lingerMs setting their field to the
\* given number cut to a whole count of milliseconds within u64.
C4_FieldsSet ==
    (ConfigCall /\ frame[1].native # None) =>
      /\ frame[1].native[1].topic = frame[1].topic
      /\ frame[1].native[1].client = inner[frame[1].h][1]
      /\ frame[1].native[1].config[1] =
           [batch_size |-> GivenSize(PassedObj.batchSize),
            timeout |-> GivenWhole(PassedObj.timeoutMs),
            linger |-> GivenWhole(PassedObj.lingerMs),
            max_request_size |-> GivenSize(PassedObj.maxRequestSize),
            compression |-> GivenCompression(PassedObj.compression)]

C4_Witness ==
    /\ ConfigCall
    /\ PassedObj =
         ConfigObj(JsNumber(Fin(200)), JsNumber(Fin(3)), JsAbsent, JsAbsent,
                   JsString("gzip"))
    /\ frame[1].native # None
    /\ frame[1].native[1].config[1] =
         [batch_size |-> Some(100), timeout |-> Some(<<"ms", <<"u64", 1>>>>),
          linger |-> None, max_request_size |-> None, compression |-> Some("Gzip")]

\* C5: a compression of "none" is accepted and leaves the compression as
\* unset as when the property is absent.
C5_NoneIsUnset ==
    (ConfigCall /\ PassedObj.compression = JsString("none")) =>
      /\ Rejected(frame[1].call) =>
           Message(frame[1].call)[1] # "Invalid compression type: "
      /\ Throwing(PassedObj) = {} =>
           /\ frame[1].made # None
           /\ IsOk(frame[1].made[1])
           /\ frame[1].made[1][2].compression = None
      /\ frame[1].native # None => frame[1].native[1].config[1].compression = None

C5_Witness ==
    /\ ConfigCall
    /\ PassedObj.compression = JsString("none")
    /\ PassedObj.batchSize = JsNumber(Fin(200))
    /\ frame[1].native # None
    /\ frame[1].native[1].config[1].compression = None
    /\ frame[1].native[1].config[1].batch_size = Some(100)

\* the clients attached to handle h, in order
AttachedTo(h) == SelectSeq(attachLog, LAMBDA a : a.h = h)

\* C6: a handle owns at most one client, no client is owned twice or after
\* its drop, the client owned is the one attached last, every client attached
\* before it has been dropped, a factory call is sent to the client the
\* handle owns then, never to a dropped one, and no native call in flight is
\* against a dropped client.
C6_AttachReplaces ==
    /\ [](\A h \in Handles :
            /\ Len(inner[h]) <= 1
            /\ \A i \in 1..Len(inner[h]) : inner[h][i] \notin dropped
            /\ \A g \in Handles : (g # h /\ inner[h] # None) => inner[g] # inner[h]
            /\ LET log == AttachedTo(h)
               IN Len(log) > 0 =>
                    /\ inner[h] = <<log[Len(log)].client>>
                    /\ \A k \in 1..(Len(log) - 1) : log[k].client \in dropped)
    /\ [](\A call \in 1..Len(calls) :
            calls[call].out = None =>
              \A i \in 1..Len(calls[call].sent) : calls[call].sent[i] \notin dropped)
    /\ [][Len(calls') > Len(calls) =>
            LET new == calls'[Len(calls')]
            IN /\ new.sent \in {None, inner[new.h]}
               /\ \A i \in 1..Len(new.sent) : new.sent[i] \notin dropped]_vars

C6_Witness ==
    \E h \in Handles :
      /\ Len(AttachedTo(h)) = 2
      /\ AttachedTo(h)[1].client # AttachedTo(h)[2].client
      /\ AttachedTo(h)[1].client \in dropped
      /\ inner[h] = <<AttachedTo(h)[2].client>>
      /\ \E call \in 1..Len(calls) :
           /\ calls[call].h = h
           /\ calls[call].sent = inner[h]
           /\ Resolved(call)

\* C7: on an attached handle a factory call returns a wrapper exactly when
\* its native call succeeded, the wrapper wrapping the capability object
\* that call returned; a native failure is returned as a boundary error.
C7_WrapperIffNativeOk ==
    \A call \in 1..Len(calls) :
      Attached(calls[call].h) =>
        /\ Resolved(call) <=> (calls[call].ret # None /\ calls[call].ret[1][1] = "Ok")
        /\ Resolved(call) =>
             /\ calls[call].out[1][2].wraps = calls[call].ret[1][2]
             /\ calls[call].ret[1][2].of = inner[calls[call].h][1]
             /\ calls[call].ret[1][2].kind = calls[call].op
        /\ (calls[call].ret # None /\ calls[call].ret[1][1] = "Err") =>
             /\ Rejected(call)
             /\ Message(call) = <<calls[call].ret[1][2]>>

C7_Witness ==
    /\ Len(calls) = 2
    /\ calls[1].op = "partition_consumer"
    /\ calls[1].ret = Some(Err("topic not found"))
    /\ Rejected(1)
    /\ calls[2].op = WithConfig
    /\ calls[2].h = calls[1].h
    /\ Resolved(2)
    /\ calls[2].out[1][2].wraps.serial = 2

\* C8: every factory call ends in a wrapper or a boundary error; none ends
\* in a panic.
C8_NoPanic ==
    \A call \in 1..Len(calls) : ~Panicked(call)

\* C9: a handle the host constructed is unattached, never attached, and all
\* its calls fail with "client not found"; a handle marshalled from a value
\* holding client c is, once the host holds it, attached to c by one
\* set_client, one marshalled from a value holding nothing is unattached;
\* the host calls no factory on a handle before it holds it.
C9_Lifecycle ==
    /\ \A h \in Handles :
         /\ origin[h].by = "new" =>
              /\ h \in visible
              /\ inner[h] = None
              /\ Len(AttachedTo(h)) = 0
         /\ (origin[h].by = "try_to_js" /\ h \in visible) =>
              /\ inner[h] = origin[h].value
              /\ AttachedTo(h) = [k \in 1..Len(origin[h].value) |->
                                    [h |-> h, client |-> origin[h].value[k]]]
         /\ h \notin visible => Len(AttachedTo(h)) = 0
    /\ \A call \in 1..Len(calls) :
         /\ calls[call].h \in visible
         /\ origin[calls[call].h].value = None =>
              calls[call].out = Some(Err([msg |-> <<"client not found">>]))
         /\ origin[calls[call].h].value # None =>
              /\ calls[call].out # Some(Err([msg |-> <<"client not found">>]))
              /\ calls[call].sent \in {None, origin[calls[call].h].value}

C9_Witness ==
    /\ Len(inner) = 1
    /\ origin[1].by = "try_to_js"
    /\ origin[1].value # None
    /\ Len(calls) = 2
    /\ Resolved(1)
    /\ calls[2].sent = origin[1].value

\* C10: a step of a factory call, its start or its end, leaves every
\* handle's client as it was.
C10_CallsKeepAttachment ==
    [][calls' # calls => inner' = inner]_vars

C10_Witness ==
    /\ Len(calls) = 2
    /\ calls[1].h = calls[2].h
    /\ Attached(calls[1].h)
    /\ calls[1].op = WithConfig
    /\ Rejected(1)
    /\ calls[1].sent = None
    /\ calls[2].op = WithConfig
    /\ Resolved(2)

====
